---- MODULE Spec2Model ----
(***************************************************************************)
(* textual_click: UserCommandData (run_command.py) and the recompute pass  *)
(* of CommandForm (widgets/form.py).                                       *)
(*                                                                         *)
(* A Python value is a record [ty, s, n]: ty is its type, s its text (for  *)
(* a str) and n its number (for an int or a bool).  A tuple and a list are *)
(* sequences.  An object reference to a schema is the schema record, which *)
(* carries the unique key of the parameter (the id of its form control).   *)
(*                                                                         *)
(* The schemas and the supplied values are inputs.  The values of one      *)
(* tuple are of one type or the marker, so that sorted() compares them     *)
(* without a TypeError; every option schema has a default object, whose    *)
(* list of values is empty for an option without default, as to_cli_args   *)
(* reads option_schema.default.values of every option.                     *)
(***************************************************************************)
EXTENDS Integers, Sequences, FiniteSets, TLC

VARIABLES
    built,      \* the node chain as it was constructed, before any fill_defaults
    data,       \* the node chain: data[1] is the root UserCommandData
    schema,     \* the CommandSchema given to fill_defaults
    fills,      \* the number of fill_defaults calls made on data
    cli,        \* the result of the last to_cli_args call on data
    selected,   \* CommandForm.command_schema, the command the form is for
    controls,   \* the ParameterControls of the form, by parameter key
    mounted,    \* whether on_mount has run
    posted,     \* the command_data of the last Changed message posted
    nposted,    \* the number of Changed messages posted
    triggers    \* the number of _form_changed passes run

vars == <<built, data, schema, fills, cli, selected, controls, mounted, posted, nposted, triggers>>

(* ------------------------------ bounds -------------------------------- *)

\* Most Changed passes followed in one behaviour of the form.
MaxTriggers == 2
\* Most fill_defaults applications followed on one node chain.
MaxFills == 2
\* Most occurrences supplied for one multi-occurrence option.
MaxOcc == 2

(* --------------------------- Python values ---------------------------- *)

PyStr(t) == [ty |-> "str", s |-> t, n |-> 0]
PyInt(k) == [ty |-> "int", s |-> "", n |-> k]
PyTrue == [ty |-> "bool", s |-> "", n |-> 1]
PyFalse == [ty |-> "bool", s |-> "", n |-> 0]
\* ValueNotSupplied(): the marker of a field in which nothing was entered.
ValueNotSupplied == [ty |-> "marker", s |-> "", n |-> 0]

\* A list and a tuple, where the code looks at the type of the container.
PyList(items) == [ty |-> "list", items |-> items]
PyTuple(items) == [ty |-> "tuple", items |-> items]

\* v == ValueNotSupplied(): whether v is an instance of the marker class
IsMarker(v) == v.ty = "marker"
OnlyMarkers(t) == \A i \in 1..Len(t) : IsMarker(t[i])
NoMarkers(t) == \A i \in 1..Len(t) : ~IsMarker(t[i])

\* The strings the inputs are drawn from, in the order of str.__lt__.
StrOrder == <<".", "1", "fix bug", "src", "x", "y">>

StrRank(t) == CHOOSE i \in 1..Len(StrOrder) : StrOrder[i] = t

\* a == b of Python: a bool is an int; the marker equals only the marker.
PyEq(a, b) ==
    IF IsMarker(a) \/ IsMarker(b) THEN IsMarker(a) /\ IsMarker(b)
    ELSE IF a.ty = "str" \/ b.ty = "str" THEN a.ty = b.ty /\ a.s = b.s
    ELSE a.n = b.n

\* a < b of Python on values of one type; the marker is less than nothing
\* and everything else is less than the marker.
PyLess(a, b) ==
    IF IsMarker(a) THEN FALSE
    ELSE IF IsMarker(b) THEN TRUE
    ELSE IF a.ty = "str" THEN StrRank(a.s) < StrRank(b.s)
    ELSE a.n < b.n

\* str(v)
Str(v) ==
    CASE v.ty = "str" -> v.s
      [] v.ty = "int" -> ToString(v.n)
      [] v.ty = "bool" -> IF v.n = 1 THEN "True" ELSE "False"
      [] OTHER -> "<ValueNotSupplied object>"

\* repr(v), as str() of a container prints its items
Repr(v) ==
    IF v.ty = "str" THEN "'" \o v.s \o "'" ELSE Str(v)

RECURSIVE ReprItems(_)
ReprItems(t) ==
    IF Len(t) = 0 THEN ""
    ELSE IF Len(t) = 1 THEN Repr(t[1])
    ELSE Repr(t[1]) \o ", " \o ReprItems(Tail(t))

\* str(t) of a tuple t
ReprTuple(t) ==
    IF Len(t) = 1 THEN "(" \o Repr(t[1]) \o ",)" ELSE "(" \o ReprItems(t) \o ")"

RECURSIVE ReprTuples(_)
ReprTuples(l) ==
    IF Len(l) = 0 THEN ""
    ELSE IF Len(l) = 1 THEN ReprTuple(l[1])
    ELSE ReprTuple(l[1]) \o ", " \o ReprTuples(Tail(l))

\* str(l) of a list l of tuples
ReprList(l) == "[" \o ReprTuples(l) \o "]"

\* itertools.chain.from_iterable
RECURSIVE Flatten(_)
Flatten(l) == IF Len(l) = 0 THEN <<>> ELSE l[1] \o Flatten(Tail(l))

\* Insert v into the sorted sequence s after every item that is not greater.
RECURSIVE Insert(_, _)
Insert(v, s) ==
    IF Len(s) = 0 THEN <<v>>
    ELSE IF PyLess(v, s[1]) THEN <<v>> \o s
    ELSE <<s[1]>> \o Insert(v, Tail(s))

\* sorted(s): stable, by <
RECURSIVE Sorted(_)
Sorted(s) ==
    IF Len(s) = 0 THEN <<>> ELSE Insert(s[Len(s)], Sorted(SubSeq(s, 1, Len(s) - 1)))

\* list(map(str, s))
MapStr(s) == [i \in 1..Len(s) |-> Str(s[i])]

Range(s) == {s[i] : i \in 1..Len(s)}

(* ------------------------------ schemas ------------------------------- *)

\* MultiValueParamData(values): a default, a list of tuples of values.
MultiValueParamData(values) == [present |-> TRUE, values |-> values]
\* None, where a default is optional.
None == [present |-> FALSE, values |-> <<>>]

OptionSchema(key, name, default, multiple) ==
    [key |-> key, name |-> name, default |-> default, multiple |-> multiple]

ArgumentSchema(key, name, default) ==
    [key |-> key, name |-> name, default |-> default]

\* The schema tree the inputs are drawn from: git, with the subcommands
\* commit and add.
OptVerbose ==
    OptionSchema("git-verbose", <<"-v", "--verbose">>,
                 MultiValueParamData(<< <<PyFalse>> >>), FALSE)
OptCount ==
    OptionSchema("commit-count", <<"--count">>,
                 MultiValueParamData(<< <<PyInt(1)>> >>), FALSE)
OptMessage ==
    OptionSchema("commit-message", <<"--message", "-m">>,
                 MultiValueParamData(<<>>), FALSE)
OptSize ==
    OptionSchema("commit-size", <<"--size">>,
                 MultiValueParamData(<< <<PyInt(1), PyInt(2)>> >>), FALSE)
OptPath ==
    OptionSchema("add-path", <<"-p", "--path">>,
                 MultiValueParamData(<< <<PyStr(".")>> >>), TRUE)
ArgSource == ArgumentSchema("add-source", "source", None)
\* The default of an argument is the value of the entry made from it, a
\* tuple of values.
ArgTarget == ArgumentSchema("add-target", "target", [present |-> TRUE, values |-> <<PyStr("x")>>])

CommandNames == {"git", "commit", "add"}

\* A CommandSchema; parent and subcommands hold the names of the schemas
\* they refer to.
CommandSchema(k) ==
    CASE k = "git" ->
           [name |-> "git", options |-> <<OptVerbose>>, arguments |-> <<>>,
            subcommands |-> <<"commit", "add">>, parent |-> "None"]
      [] k = "commit" ->
           [name |-> "commit", options |-> <<OptCount, OptMessage, OptSize>>,
            arguments |-> <<>>, subcommands |-> <<>>, parent |-> "git"]
      [] k = "add" ->
           [name |-> "add", options |-> <<OptPath>>,
            arguments |-> <<ArgSource, ArgTarget>>,
            subcommands |-> <<>>, parent |-> "git"]

\* command_schema.path_from_root: the schemas from the root down to k.
RECURSIVE path_from_root(_)
path_from_root(k) ==
    IF CommandSchema(k).parent = "None" THEN <<k>>
    ELSE path_from_root(CommandSchema(k).parent) \o <<k>>

(* --------------------------- user command data ------------------------ *)

UserOptionData(name, value, option_schema) ==
    [name |-> name, value |-> value, option_schema |-> option_schema]

UserArgumentData(name, value, argument_schema) ==
    [name |-> name, value |-> value, argument_schema |-> argument_schema]

\* A UserCommandData.  A chain of them is a sequence: the subcommand of a
\* node is the next node of the sequence and its parent the one before.
UserCommandData(name, options, arguments, command_schema) ==
    [name |-> name, options |-> options, arguments |-> arguments,
     command_schema |-> command_schema]

\* UserOptionData.string_name; an option name is a list of aliases
string_name(option) == option.name[1]

\* max(option.name, key=len): the first of the longest aliases
longest_name(name) ==
    LET best == CHOOSE i \in 1..Len(name) :
                  /\ \A j \in 1..Len(name) : Len(name[j]) <= Len(name[i])
                  /\ \A j \in 1..(i - 1) : Len(name[j]) < Len(name[i])
    IN name[best]

(* ------------------------------ to_cli_args --------------------------- *)

\* An item of args, with the place that appended it: the depth of the node
\* in the chain, the part of to_cli_args ("name", "flag", "value", "arg")
\* and the key of the parameter.
Item(tok, depth, kind, key) == [tok |-> tok, depth |-> depth, kind |-> kind, key |-> key]

\* SingleOptionArgs without the comparison with the default: the flag of
\* every supplied option is appended.
SingleOptionArgs_NoDefaultCheck(option, d) ==
    LET value_data == <<option.value>>
        key == option.option_schema.key
    IN  IF \E i \in 1..Len(option.value) : ~IsMarker(option.value[i])
        THEN <<Item(PyStr(longest_name(option.name)), d, "flag", key),
               Item(PyStr(ReprList(value_data)), d, "value", key)>>
        ELSE <<>>

\* The items one option of multiple=False appends, at depth d.
SingleOptionArgs(option, d) ==
    LET value_data == <<option.value>>
        default_data == option.option_schema.default.values
        flattened_values == Sorted(Flatten(value_data))
        flattened_defaults == Sorted(Flatten(default_data))
        values_supplied ==
            \E i \in 1..Len(flattened_values) : ~IsMarker(flattened_values[i])
        values_are_defaults == MapStr(flattened_values) = MapStr(flattened_defaults)
        key == option.option_schema.key
        is_true_bool == Len(option.value) = 1 /\ PyEq(option.value[1], PyTrue)
        \* value_data is the list [option.value], which is compared with the
        \* marker and tested for being a tuple
        this_value_supplied == ~IsMarker(PyList(value_data))
        is_tuple == PyList(value_data).ty = "tuple"
    IN  IF values_supplied /\ ~values_are_defaults
        THEN <<Item(PyStr(longest_name(option.name)), d, "flag", key)>>
             \o (IF this_value_supplied \/ is_true_bool
                 THEN IF is_tuple
                      THEN [i \in 1..Len(value_data) |->
                              Item(PyStr(ReprTuple(value_data[i])), d, "value", key)]
                      ELSE <<Item(PyStr(ReprList(value_data)), d, "value", key)>>
                 ELSE <<>>)
        ELSE <<>>

\* multiples and multiples_schemas after the option loop has seen the
\* options 1..i: one group for each string_name, in the order of their
\* first option.
RECURSIVE Multiples(_, _)
Multiples(options, i) ==
    IF i = 0 THEN <<>>
    ELSE LET before == Multiples(options, i - 1)
             option == options[i]
             at == {g \in 1..Len(before) : before[g].name = string_name(option)}
         IN  IF ~option.option_schema.multiple THEN before
             ELSE IF at = {}
             THEN Append(before, [name |-> string_name(option),
                                  values |-> <<option.value>>,
                                  schema |-> option.option_schema])
             ELSE [g \in 1..Len(before) |->
                     IF g \in at
                     THEN [name |-> before[g].name,
                           values |-> Append(before[g].values, option.value),
                           schema |-> option.option_schema]
                     ELSE before[g]]

\* The items appended for the occurrences values[i..] of one group.
RECURSIVE OccurrenceArgs(_, _, _, _)
OccurrenceArgs(group, values, i, d) ==
    IF i > Len(values) THEN <<>>
    ELSE LET value_data == values[i]
             \* value_data is a tuple of values, which is compared with the marker
             not_marker == ~IsMarker(PyTuple(value_data))
         IN  (IF not_marker
              THEN <<Item(PyStr(group.name), d, "flag", group.schema.key)>>
                   \o [j \in 1..Len(value_data) |->
                         Item(PyStr(Str(value_data[j])), d, "value", group.schema.key)]
              ELSE <<>>)
             \o OccurrenceArgs(group, values, i + 1, d)

\* MultipleOptionArgs without the comparison with the default.
MultipleOptionArgs_NoDefaultCheck(group, d) ==
    IF \E i \in 1..Len(group.values) : ~OnlyMarkers(group.values[i])
    THEN OccurrenceArgs(group, group.values, 1, d)
    ELSE <<>>

\* The items one group of a multiple=True option appends, at depth d.
MultipleOptionArgs(group, d) ==
    LET defaults == group.schema.default
        sorted_supplied_values == Sorted(Flatten(group.values))
        sorted_default_values == Sorted(Flatten(defaults.values))
        supplied_values == MapStr(sorted_supplied_values)
        supplied_defaults == MapStr(sorted_default_values)
        values_are_defaults == supplied_values = supplied_defaults
        values_supplied ==
            \E i \in 1..Len(sorted_supplied_values) : ~IsMarker(sorted_supplied_values[i])
    IN  IF values_supplied /\ ~values_are_defaults
        THEN OccurrenceArgs(group, group.values, 1, d)
        ELSE <<>>

\* The items one argument appends, at depth d.
ArgumentArgs(argument, d) ==
    LET value_data == argument.value
        kept == SelectSeq(value_data, LAMBDA v : ~IsMarker(v))
    IN  [i \in 1..Len(kept) |-> Item(kept[i], d, "arg", argument.argument_schema.key)]

\* The items the loop over self.options appends for the options from i on
\* that are not multiple.
RECURSIVE OptionLoopArgs(_, _, _)
OptionLoopArgs(options, i, d) ==
    IF i > Len(options) THEN <<>>
    ELSE (IF options[i].option_schema.multiple THEN <<>>
          ELSE SingleOptionArgs(options[i], d))
         \o OptionLoopArgs(options, i + 1, d)

\* The items the loop over multiples.items() appends for the groups from
\* i on.
RECURSIVE MultiplesLoopArgs(_, _, _)
MultiplesLoopArgs(multiples, i, d) ==
    IF i > Len(multiples) THEN <<>>
    ELSE MultipleOptionArgs(multiples[i], d) \o MultiplesLoopArgs(multiples, i + 1, d)

\* The items the loop over self.arguments appends for the arguments from
\* i on.
RECURSIVE ArgumentLoopArgs(_, _, _)
ArgumentLoopArgs(arguments, i, d) ==
    IF i > Len(arguments) THEN <<>>
    ELSE ArgumentArgs(arguments[i], d) \o ArgumentLoopArgs(arguments, i + 1, d)

\* to_cli_args with the loop over the arguments before the option loops.
RECURSIVE to_cli_args_ArgumentsFirst(_, _)
to_cli_args_ArgumentsFirst(chain, d) ==
    LET self == chain[d]
        multiples == Multiples(self.options, Len(self.options))
    IN  <<Item(PyStr(self.name), d, "name", "")>>
        \o ArgumentLoopArgs(self.arguments, 1, d)
        \o OptionLoopArgs(self.options, 1, d)
        \o MultiplesLoopArgs(multiples, 1, d)
        \o (IF d < Len(chain) THEN to_cli_args_ArgumentsFirst(chain, d + 1) ELSE <<>>)

\* to_cli_args of the node chain[d], which has chain[d+1] as its subcommand.
RECURSIVE to_cli_args(_, _)
to_cli_args(chain, d) ==
    LET self == chain[d]
        multiples == Multiples(self.options, Len(self.options))
    IN  <<Item(PyStr(self.name), d, "name", "")>>
        \o OptionLoopArgs(self.options, 1, d)
        \o MultiplesLoopArgs(multiples, 1, d)
        \o ArgumentLoopArgs(self.arguments, 1, d)
        \o (IF d < Len(chain) THEN to_cli_args(chain, d + 1) ELSE <<>>)

\* args, as to_cli_args returns it
Tokens(items) == [i \in 1..Len(items) |-> items[i].tok]

(* ------------------------------ fill_defaults ------------------------- *)

\* FillOptions without the test for an entry of the same name.
RECURSIVE FillOptions_NoNameCheck(_, _, _)
FillOptions_NoNameCheck(options, option_schemas, i) ==
    IF i > Len(option_schemas) THEN options
    ELSE LET option_schema == option_schemas[i]
             default == option_schema.default
             filled ==
                 IF default.present
                 THEN options \o [j \in 1..Len(default.values) |->
                                    UserOptionData(option_schema.name, default.values[j],
                                                   option_schema)]
                 ELSE options
         IN  FillOptions_NoNameCheck(filled, option_schemas, i + 1)

\* The options of a node after the loop over command_schema.options has
\* handled the option schemas from i on.
RECURSIVE FillOptions(_, _, _)
FillOptions(options, option_schemas, i) ==
    IF i > Len(option_schemas) THEN options
    ELSE LET option_schema == option_schemas[i]
             default == option_schema.default
             named == \E j \in 1..Len(options) : options[j].name = option_schema.name
             filled ==
                 IF default.present /\ ~named
                 THEN options \o [j \in 1..Len(default.values) |->
                                    UserOptionData(option_schema.name, default.values[j],
                                                   option_schema)]
                 ELSE options
         IN  FillOptions(filled, option_schemas, i + 1)

\* FillArguments putting the entry it makes before the others.
RECURSIVE FillArguments_Prepend(_, _, _)
FillArguments_Prepend(arguments, argument_schemas, i) ==
    IF i > Len(argument_schemas) THEN arguments
    ELSE LET arg_schema == argument_schemas[i]
             named == \E j \in 1..Len(arguments) : arguments[j].name = arg_schema.name
             filled ==
                 IF arg_schema.default.present /\ ~named
                 THEN <<UserArgumentData(arg_schema.name, arg_schema.default.values,
                                         arg_schema)>> \o arguments
                 ELSE arguments
         IN  FillArguments_Prepend(filled, argument_schemas, i + 1)

\* The arguments of a node after the loop over command_schema.arguments
\* has handled the argument schemas from i on.
RECURSIVE FillArguments(_, _, _)
FillArguments(arguments, argument_schemas, i) ==
    IF i > Len(argument_schemas) THEN arguments
    ELSE LET arg_schema == argument_schemas[i]
             named == \E j \in 1..Len(arguments) : arguments[j].name = arg_schema.name
             filled ==
                 IF arg_schema.default.present /\ ~named
                 THEN Append(arguments,
                             UserArgumentData(arg_schema.name, arg_schema.default.values,
                                              arg_schema))
                 ELSE arguments
         IN  FillArguments(filled, argument_schemas, i + 1)

\* next(cmd for cmd in command_schema.subcommands.values()
\*      if cmd.name == name, None)
SubcommandSchema(command_schema, name) ==
    LET subs == command_schema.subcommands
        hits == {i \in 1..Len(subs) : CommandSchema(subs[i]).name = name}
    IN  IF hits = {} THEN "None"
        ELSE subs[CHOOSE i \in hits : \A j \in hits : i <= j]

\* The chain after chain[d].fill_defaults(CommandSchema(k)).
RECURSIVE fill_defaults(_, _, _)
fill_defaults(chain, d, k) ==
    LET command_schema == CommandSchema(k)
        self == chain[d]
        node == [self EXCEPT
                   !.options = FillOptions(self.options, command_schema.options, 1),
                   !.arguments = FillArguments(self.arguments, command_schema.arguments, 1)]
        here == [chain EXCEPT ![d] = node]
    IN  IF d < Len(chain)
        THEN LET subcommand_schema == SubcommandSchema(command_schema, chain[d + 1].name)
             IN  IF subcommand_schema # "None"
                 THEN fill_defaults(here, d + 1, subcommand_schema)
                 ELSE here
        ELSE here

(* ------------------------------- inputs ------------------------------- *)

\* The value tuples a user supplies for a parameter.
SuppliedValues(key) ==
    CASE key = "git-verbose" -> {<<PyFalse>>, <<PyTrue>>, <<ValueNotSupplied>>}
      [] key = "commit-count" -> {<<PyStr("1")>>, <<PyInt(2)>>, <<ValueNotSupplied>>}
      [] key = "commit-message" -> {<<PyStr("fix bug")>>, <<ValueNotSupplied>>}
      [] key = "commit-size" ->
           {<<PyInt(2), PyInt(1)>>, <<PyInt(1), PyInt(1)>>, <<PyInt(1), ValueNotSupplied>>}
      [] key = "add-path" -> {<<PyStr(".")>>, <<PyStr("src")>>, <<ValueNotSupplied>>}
      [] key = "add-source" -> {<<PyStr("src")>>, <<ValueNotSupplied>>}
      [] key = "add-target" -> {<<PyStr("x")>>, <<PyStr("y")>>, <<ValueNotSupplied>>}

SeqsUpTo(S, n) == UNION {[1..m -> S] : m \in 0..n}

\* The lists of entries a node can hold for one option schema: at most one
\* entry of a single option, at most MaxOcc of a multiple one.
OptionEntries(option_schema) ==
    LET most == IF option_schema.multiple THEN MaxOcc ELSE 1
    IN  {[i \in 1..Len(vs) |-> UserOptionData(option_schema.name, vs[i], option_schema)] :
           vs \in SeqsUpTo(SuppliedValues(option_schema.key), most)}

ArgumentEntries(arg_schema) ==
    {[i \in 1..Len(vs) |-> UserArgumentData(arg_schema.name, vs[i], arg_schema)] :
       vs \in SeqsUpTo(SuppliedValues(arg_schema.key), 1)}

\* The option entry lists of a node, in the order of the schemas from i on.
RECURSIVE OptionEntryLists(_, _)
OptionEntryLists(schemas, i) ==
    IF i > Len(schemas) THEN {<<>>}
    ELSE {a \o b : a \in OptionEntries(schemas[i]), b \in OptionEntryLists(schemas, i + 1)}

\* The argument entry lists of a node, in the order of the schemas from i on.
RECURSIVE ArgumentEntryLists(_, _)
ArgumentEntryLists(schemas, i) ==
    IF i > Len(schemas) THEN {<<>>}
    ELSE {a \o b : a \in ArgumentEntries(schemas[i]),
                   b \in ArgumentEntryLists(schemas, i + 1)}

Nodes(k) ==
    {UserCommandData(CommandSchema(k).name, options, arguments, k) :
       options \in OptionEntryLists(CommandSchema(k).options, 1),
       arguments \in ArgumentEntryLists(CommandSchema(k).arguments, 1)}

\* The node chains along a path of schemas.
RECURSIVE Chains(_, _)
Chains(path, i) ==
    IF i > Len(path) THEN {<<>>}
    ELSE {<<node>> \o rest : node \in Nodes(path[i]), rest \in Chains(path, i + 1)}

(* --------------- specification: the methods of UserCommandData -------- *)

\* cli before any to_cli_args call; a result records the chain it was made of.
NoResult == [called |-> FALSE, of |-> <<>>, args |-> <<>>]

Init ==
    /\ \E k \in CommandNames :
         /\ built \in Chains(path_from_root(k), 1)
         /\ schema \in {"git", k}
    /\ data = built
    /\ fills = 0
    /\ cli = NoResult
    /\ selected = "git"
    /\ controls = <<>>
    /\ mounted = FALSE
    /\ posted = <<>>
    /\ nposted = 0
    /\ triggers = 0

FillDefaults ==
    /\ fills < MaxFills
    /\ data' = fill_defaults(data, 1, schema)
    /\ fills' = fills + 1
    /\ UNCHANGED <<built, schema, cli, selected, controls, mounted, posted, nposted, triggers>>

ToCliArgs ==
    /\ cli' = [called |-> TRUE, of |-> data, args |-> to_cli_args(data, 1)]
    /\ UNCHANGED <<built, data, schema, fills, selected, controls, mounted, posted, nposted, triggers>>

Next == FillDefaults \/ ToCliArgs

Spec == Init /\ [][Next]_vars

(* ------------------------ properties of to_cli_args ------------------- *)

\* The tokens of the last result that the parameter key of node d appended.
TokensOf(d, key) ==
    Tokens(SelectSeq(cli.args, LAMBDA it : it.depth = d /\ it.key = key))

\* The option entries of the last result's chain, as <<d, i>>.
OptionsOfResult ==
    UNION {{<<d, i>> : i \in 1..Len(cli.of[d].options)} : d \in 1..Len(cli.of)}

SingleOptionsOfResult ==
    {p \in OptionsOfResult : ~cli.of[p[1]].options[p[2]].option_schema.multiple}

MultipleOptionsOfResult ==
    {p \in OptionsOfResult : cli.of[p[1]].options[p[2]].option_schema.multiple}

\* The sorted-stringified comparison of a list of value tuples with the
\* tuples of a default.
SameAsDefault(tuples, default_tuples) ==
    MapStr(Sorted(Flatten(tuples))) = MapStr(Sorted(Flatten(default_tuples)))

StrTokens(t) == [i \in 1..Len(t) |-> PyStr(Str(t[i]))]

\* The value tuples of all entries of a node's options that have the name.
ValuesNamed(options, name) ==
    LET same == SelectSeq(options, LAMBDA o : o.name = name)
    IN  [i \in 1..Len(same) |-> same[i].value]

\* Every option and argument entry of the chain equals its schema default.
AllDefaults(chain) ==
    \A d \in 1..Len(chain) :
      /\ \A i \in 1..Len(chain[d].options) :
           LET o == chain[d].options[i]
           IN  IF o.option_schema.multiple
               THEN SameAsDefault(ValuesNamed(chain[d].options, o.name),
                                  o.option_schema.default.values)
               ELSE SameAsDefault(<<o.value>>, o.option_schema.default.values)
      /\ \A i \in 1..Len(chain[d].arguments) :
           LET a == chain[d].arguments[i]
           IN  /\ a.argument_schema.default.present
               /\ SameAsDefault(<<a.value>>, <<a.argument_schema.default.values>>)

\* C1: when every option entry and every argument entry of the chain equals
\* its schema default, to_cli_args returns exactly the command names from
\* the root to the leaf.
C1_AllDefaultsGiveNamesOnly ==
    (cli.called /\ AllDefaults(cli.of)) =>
        Tokens(cli.args) = [d \in 1..Len(cli.of) |-> PyStr(cli.of[d].name)]

\* C2: a single-occurrence option whose value is concrete, is not the
\* true singleton and differs from the default appends its flag and then
\* one token for each value component, the string of that component.
C2_FlagThenValueTokens ==
    cli.called =>
      \A p \in SingleOptionsOfResult :
        LET o == cli.of[p[1]].options[p[2]]
        IN  (/\ NoMarkers(o.value)
             /\ o.value # <<PyTrue>>
             /\ ~SameAsDefault(<<o.value>>, o.option_schema.default.values))
            => TokensOf(p[1], o.option_schema.key)
                 = <<PyStr(longest_name(o.name))>> \o StrTokens(o.value)

\* C3: a single-occurrence option whose value is the true singleton, with
\* a default that is not true, appends its flag and no value token.
C3_TrueAppendsFlagOnly ==
    cli.called =>
      \A p \in SingleOptionsOfResult :
        LET o == cli.of[p[1]].options[p[2]]
        IN  (/\ o.value = <<PyTrue>>
             /\ ~SameAsDefault(<<o.value>>, o.option_schema.default.values))
            => TokensOf(p[1], o.option_schema.key) = <<PyStr(longest_name(o.name))>>

\* The tokens C4 states for the occurrences of a multiple option from i on.
RECURSIVE SuppliedOccurrences(_, _, _)
SuppliedOccurrences(values, flag, i) ==
    IF i > Len(values) THEN <<>>
    ELSE (IF OnlyMarkers(values[i]) THEN <<>> ELSE <<PyStr(flag)>> \o StrTokens(values[i]))
         \o SuppliedOccurrences(values, flag, i + 1)

\* C4: a multi-occurrence option whose values differ from the default, one
\* of them not the marker, appends for every occurrence that is not the
\* marker the flag and the tokens of its value, in entry order, and
\* nothing for an occurrence that is the marker.
C4_OneFlagForEachSuppliedOccurrence ==
    cli.called =>
      \A p \in MultipleOptionsOfResult :
        LET o == cli.of[p[1]].options[p[2]]
            values == ValuesNamed(cli.of[p[1]].options, o.name)
        IN  (/\ \E i \in 1..Len(values) : ~OnlyMarkers(values[i])
             /\ ~SameAsDefault(values, o.option_schema.default.values))
            => \E flag \in Range(o.name) :
                 TokensOf(p[1], o.option_schema.key) = SuppliedOccurrences(values, flag, 1)

\* C7: a single-occurrence option appends nothing when its value
\* components are all the marker or its sorted, stringified values equal
\* those of the default, and its flag, the longest alias, first otherwise.
C7_SingleOptionSuppression ==
    cli.called =>
      \A p \in SingleOptionsOfResult :
        LET o == cli.of[p[1]].options[p[2]]
            tokens == TokensOf(p[1], o.option_schema.key)
        IN  IF OnlyMarkers(o.value)
               \/ SameAsDefault(<<o.value>>, o.option_schema.default.values)
            THEN tokens = <<>>
            ELSE /\ tokens # <<>>
                 /\ tokens[1].ty = "str"
                 /\ tokens[1].s \in Range(o.name)
                 /\ \A n \in Range(o.name) : Len(n) <= Len(tokens[1].s)

\* The last result has a single option that was suppressed as the default
\* and one that appended its flag.
C7_Witness ==
    /\ cli.called
    /\ \E p \in SingleOptionsOfResult :
         LET o == cli.of[p[1]].options[p[2]]
         IN  /\ o.value = <<PyFalse>>
             /\ o.option_schema = OptVerbose
             /\ TokensOf(p[1], "git-verbose") = <<>>
    /\ \E p \in SingleOptionsOfResult :
         LET o == cli.of[p[1]].options[p[2]]
         IN  /\ ~OnlyMarkers(o.value)
             /\ ~SameAsDefault(<<o.value>>, o.option_schema.default.values)
             /\ TokensOf(p[1], o.option_schema.key) # <<>>

\* The names of the chain, each followed by the components of its node's
\* argument values that are not the marker.
RECURSIVE NamesAndArguments(_, _)
NamesAndArguments(chain, d) ==
    IF d > Len(chain) THEN <<>>
    ELSE <<PyStr(chain[d].name)>>
         \o SelectSeq(Flatten([i \in 1..Len(chain[d].arguments) |->
                                 chain[d].arguments[i].value]),
                      LAMBDA v : ~IsMarker(v))
         \o NamesAndArguments(chain, d + 1)

\* C1, amended: when every option entry and every argument entry of the
\* chain equals its schema default, to_cli_args returns the command names
\* from the root to the leaf, each followed by the argument values of its
\* node that are not the marker, and no flag or option value.
C1_AllDefaultsGiveNamesAndArguments ==
    (cli.called /\ AllDefaults(cli.of)) =>
        Tokens(cli.args) = NamesAndArguments(cli.of, 1)

\* A result for a chain of two nodes, all of default values, with a single
\* option, a multiple option and an argument in it.
C1_Witness ==
    /\ cli.called
    /\ AllDefaults(cli.of)
    /\ Len(cli.of) = 2
    /\ cli.of[1].options # <<>>
    /\ cli.of[2].options # <<>>
    /\ cli.of[2].arguments # <<>>
    /\ Len(cli.args) > 2

KindRank(kind) == CASE kind = "name" -> 0 [] kind = "arg" -> 2 [] OTHER -> 1

\* C8: the result is the name of the node, then its option tokens, then
\* its argument tokens, then the result of its subcommand: the first token
\* is the name of the root, every node appends its name once and first,
\* and no token of an ancestor follows a token of a descendant.
C8_NameOptionsArgumentsSubcommand ==
    cli.called =>
      /\ cli.args # <<>>
      /\ cli.args[1].tok = PyStr(cli.of[1].name)
      /\ \A d \in 1..Len(cli.of) :
           \E i \in 1..Len(cli.args) :
             /\ cli.args[i] = Item(PyStr(cli.of[d].name), d, "name", "")
             /\ \A j \in 1..Len(cli.args) :
                  /\ (cli.args[j].depth = d /\ j # i) => (j > i /\ cli.args[j].kind # "name")
                  /\ cli.args[j].depth < d => j < i
      /\ \A i, j \in 1..Len(cli.args) :
           (i < j /\ cli.args[i].depth = cli.args[j].depth)
             => KindRank(cli.args[i].kind) <= KindRank(cli.args[j].kind)

\* A result in which the subcommand appended option and argument tokens
\* and the root an option token.
C8_Witness ==
    /\ cli.called
    /\ \E i, j, k \in 1..Len(cli.args) :
         /\ cli.args[i].depth = 1 /\ cli.args[i].kind = "flag"
         /\ cli.args[j].depth = 2 /\ cli.args[j].kind = "flag"
         /\ cli.args[k].depth = 2 /\ cli.args[k].kind = "arg"

(* ----------------------- properties of fill_defaults ------------------ *)

\* C5: fill_defaults is idempotent: after two or more calls every node has
\* the option and argument entries it had after the first call.
C5_FillDefaultsIdempotent ==
    fills >= 2 => data = fill_defaults(built, 1, schema)

\* fill_defaults ran twice on a chain to which the first call had added
\* both an option entry and an argument entry.
C5_Witness ==
    /\ fills >= 2
    /\ \E d \in 1..Len(data) :
         /\ Len(data[d].options) > Len(built[d].options)
         /\ Len(data[d].arguments) > Len(built[d].arguments)

\* The place of the parameter with the key among the schemas, 0 if none.
Place(schemas, key) ==
    IF \E i \in 1..Len(schemas) : schemas[i].key = key
    THEN CHOOSE i \in 1..Len(schemas) : schemas[i].key = key
    ELSE 0

OptionPlaces(options, k) ==
    [i \in 1..Len(options) |-> Place(CommandSchema(k).options, options[i].option_schema.key)]

ArgumentPlaces(arguments, k) ==
    [i \in 1..Len(arguments) |->
       Place(CommandSchema(k).arguments, arguments[i].argument_schema.key)]

\* No item of the sequence of places is less than one before it.
Ascending(places) == \A i, j \in 1..Len(places) : i < j => places[i] <= places[j]

\* The entries of the node are in the order its own schema declares.
InSchemaOrder(node) ==
    /\ Ascending(OptionPlaces(node.options, node.command_schema))
    /\ Ascending(ArgumentPlaces(node.arguments, node.command_schema))

\* C10: before and after fill_defaults, the entries of every node are in
\* the order in which its schema declares their parameters.
C10_EntriesInSchemaOrder ==
    \A d \in 1..Len(data) : InSchemaOrder(built[d]) /\ InSchemaOrder(data[d])

IsPrefix(s, t) == Len(s) <= Len(t) /\ SubSeq(t, 1, Len(s)) = s

\* The schema fill_defaults fills the node d of data from, "None" if the
\* walk does not reach it.
RECURSIVE FilledFrom(_)
FilledFrom(d) ==
    IF d = 1 THEN schema
    ELSE IF FilledFrom(d - 1) = "None" THEN "None"
    ELSE SubcommandSchema(CommandSchema(FilledFrom(d - 1)), data[d].name)

\* C10, amended: before fill_defaults the entries of every node are in the
\* order its schema declares; fill_defaults leaves them first and in their
\* order, and puts the entries it makes after them, in the order in which
\* the schema it fills from declares them.
C10_FilledEntriesAppended ==
    \A d \in 1..Len(data) :
      /\ InSchemaOrder(built[d])
      /\ IsPrefix(built[d].options, data[d].options)
      /\ IsPrefix(built[d].arguments, data[d].arguments)
      /\ Len(data[d].options) + Len(data[d].arguments)
           > Len(built[d].options) + Len(built[d].arguments)
         => /\ FilledFrom(d) # "None"
            /\ Ascending(OptionPlaces(
                 SubSeq(data[d].options, Len(built[d].options) + 1, Len(data[d].options)),
                 FilledFrom(d)))
            /\ Ascending(ArgumentPlaces(
                 SubSeq(data[d].arguments, Len(built[d].arguments) + 1,
                        Len(data[d].arguments)),
                 FilledFrom(d)))
            /\ \A i \in (Len(built[d].options) + 1)..Len(data[d].options) :
                 Place(CommandSchema(FilledFrom(d)).options,
                       data[d].options[i].option_schema.key) # 0
            /\ \A i \in (Len(built[d].arguments) + 1)..Len(data[d].arguments) :
                 Place(CommandSchema(FilledFrom(d)).arguments,
                       data[d].arguments[i].argument_schema.key) # 0

\* fill_defaults, given the schema of the root, added an entry to a node
\* after an entry the node had, of a parameter declared later.
C10_Witness ==
    /\ fills >= 1
    /\ schema = "git"
    /\ \E d \in 1..Len(data) :
         /\ built[d].options # <<>>
         /\ Len(data[d].options) > Len(built[d].options)
         /\ ~InSchemaOrder(data[d])

(* --------------------- the recompute pass of the form ----------------- *)

\* The keys of the parameters of the schemas on the path.
ParameterKeys(path) ==
    UNION {{CommandSchema(path[i]).options[j].key :
              j \in 1..Len(CommandSchema(path[i]).options)}
           \cup {CommandSchema(path[i]).arguments[j].key :
                   j \in 1..Len(CommandSchema(path[i]).arguments)} :
           i \in 1..Len(path)}

\* The option_datas of one command: query_one and get_values for its option
\* schemas from i on, which raise for a control that is not ok.
RECURSIVE ReadOptions(_, _, _, _)
ReadOptions(option_schemas, i, ctl, option_datas) ==
    IF i > Len(option_schemas) THEN [raised |-> FALSE, datas |-> option_datas]
    ELSE LET option == option_schemas[i]
             value == ctl[option.key]
         IN  IF ~value.ok THEN [raised |-> TRUE, datas |-> option_datas]
             ELSE ReadOptions(option_schemas, i + 1, ctl,
                    option_datas \o [j \in 1..Len(value.values) |->
                                       UserOptionData(option.name, value.values[j], option)])

\* The argument_datas of one command, read in the same way.
RECURSIVE ReadArguments(_, _, _, _)
ReadArguments(argument_schemas, i, ctl, argument_datas) ==
    IF i > Len(argument_schemas) THEN [raised |-> FALSE, datas |-> argument_datas]
    ELSE LET argument == argument_schemas[i]
             value == ctl[argument.key]
         IN  IF ~value.ok THEN [raised |-> TRUE, datas |-> argument_datas]
             ELSE ReadArguments(argument_schemas, i + 1, ctl,
                    argument_datas \o [j \in 1..Len(value.values) |->
                                         UserArgumentData(argument.name, value.values[j],
                                                          argument)])

\* The loop over path_from_root from the command i on: the chain below the
\* sentinel root, and whether a read raised.
RECURSIVE BuildChain(_, _, _, _)
BuildChain(path, i, ctl, chain) ==
    IF i > Len(path) THEN [raised |-> FALSE, chain |-> chain]
    ELSE LET command == CommandSchema(path[i])
             o == ReadOptions(command.options, 1, ctl, <<>>)
             a == ReadArguments(command.arguments, 1, ctl, <<>>)
         IN  IF o.raised \/ a.raised THEN [raised |-> TRUE, chain |-> chain]
             ELSE BuildChain(path, i + 1, ctl,
                    Append(chain, UserCommandData(command.name, o.datas, a.datas, path[i])))

\* _form_changed that goes on after the except clause with what was built.
form_changed_NoReturn(command_schema, ctl) ==
    LET tree == BuildChain(path_from_root(command_schema), 1, ctl, <<>>)
    IN  IF tree.chain = <<>> THEN [post |-> FALSE, command_data |-> <<>>]
        ELSE [post |-> TRUE,
              command_data |-> fill_defaults(tree.chain, 1, command_schema)]

\* _form_changed: whether a Changed message is posted, and its command_data.
form_changed(command_schema, ctl) ==
    LET tree == BuildChain(path_from_root(command_schema), 1, ctl, <<>>)
    IN  IF tree.raised THEN [post |-> FALSE, command_data |-> <<>>]
        ELSE [post |-> TRUE,
              command_data |-> fill_defaults(tree.chain, 1, command_schema)]

\* The widget a parameter is edited with.
ControlKind(key) ==
    CASE key = "git-verbose" -> "checkbox"
      [] key = "add-path" -> "multiple_choice"
      [] key = "add-target" -> "radio_set"
      [] OTHER -> "input"

\* The lists of value tuples get_values of the control of a parameter can
\* return: one tuple, or for a multiple option up to MaxOcc of them.
ControlValues(key) ==
    IF key = "add-path" THEN SeqsUpTo(SuppliedValues(key), MaxOcc)
    ELSE {<<t>> : t \in SuppliedValues(key)}

\* What the controls hold when the form is composed.
InitialValues(key) ==
    CASE key = "git-verbose" -> << <<PyFalse>> >>
      [] key = "commit-count" -> << <<PyStr("1")>> >>
      [] key = "commit-size" -> << <<PyInt(1), ValueNotSupplied>> >>
      [] key = "add-path" -> << <<PyStr(".")>> >>
      [] key = "add-target" -> << <<PyStr("x")>> >>
      [] OTHER -> << <<ValueNotSupplied>> >>

InitForm ==
    /\ selected \in CommandNames
    /\ controls = [key \in ParameterKeys(path_from_root(selected)) |->
                     [ok |-> TRUE, values |-> InitialValues(key)]]
    /\ mounted = FALSE
    /\ posted = <<>>
    /\ nposted = 0
    /\ triggers = 0
    /\ built = <<>>
    /\ data = <<>>
    /\ schema = "git"
    /\ fills = 0
    /\ cli = NoResult

\* One pass of _form_changed over the controls ctl.
Pass(ctl) ==
    LET result == form_changed(selected, ctl)
    IN  /\ posted' = IF result.post THEN result.command_data ELSE posted
        /\ nposted' = IF result.post THEN nposted + 1 ELSE nposted
        /\ triggers' = triggers + 1

\* The user changes the control of some parameter, a widget of the kind,
\* and the handler of its message runs _form_changed.
ControlChanged(kind) ==
    /\ \E key \in DOMAIN controls :
         /\ ControlKind(key) = kind
         /\ \E values \in ControlValues(key) :
              /\ controls' = [controls EXCEPT ![key].values = values]
              /\ Pass(controls')
    /\ UNCHANGED <<built, data, schema, fills, cli, selected, mounted>>

on_mount ==
    /\ ~mounted
    /\ mounted' = TRUE
    /\ Pass(controls)
    /\ UNCHANGED <<built, data, schema, fills, cli, selected, controls>>

on_input_changed ==
    /\ mounted
    /\ triggers < MaxTriggers
    /\ ControlChanged("input")

on_radio_set_changed ==
    /\ mounted
    /\ triggers < MaxTriggers
    /\ ControlChanged("radio_set")

on_checkbox_changed ==
    /\ mounted
    /\ triggers < MaxTriggers
    /\ ControlChanged("checkbox")

on_multiple_choice_changed ==
    /\ mounted
    /\ triggers < MaxTriggers
    /\ ControlChanged("multiple_choice")

\* The control of a parameter stops answering: from now on query_one or
\* get_values raises for it.
ControlFails ==
    /\ \E key \in DOMAIN controls :
         /\ controls[key].ok
         /\ \A other \in DOMAIN controls : controls[other].ok
         /\ controls' = [controls EXCEPT ![key].ok = FALSE]
    /\ UNCHANGED <<built, data, schema, fills, cli, selected, mounted, posted, nposted, triggers>>

NextForm ==
    \/ on_mount
    \/ on_input_changed
    \/ on_radio_set_changed
    \/ on_checkbox_changed
    \/ on_multiple_choice_changed
    \/ ControlFails

SpecForm == InitForm /\ [][NextForm]_vars

\* Some control of the form raises when it is read.
SomeControlFails(ctl) == \E key \in DOMAIN ctl : ~ctl[key].ok

\* C6: a pass in which reading a control raises posts no Changed message
\* and leaves the last posted command_data as it was; a pass posts one
\* only when every parameter of every schema on the path was read, and
\* then it has a node for each schema of the path.
C6_AbandonedPassPostsNothing ==
    [][IF triggers' = triggers + 1 /\ ~SomeControlFails(controls')
       THEN /\ nposted' = nposted + 1
            /\ Len(posted') = Len(path_from_root(selected))
            /\ \A d \in 1..Len(posted') : posted'[d].name = path_from_root(selected)[d]
       ELSE /\ nposted' = nposted
            /\ posted' = posted]_vars

\* A pass was abandoned after a Changed message had been posted.
C6_Witness ==
    /\ nposted >= 1
    /\ triggers > nposted
    /\ SomeControlFails(controls)
    /\ posted # <<>>

\* C9: after a complete pass every option entry and argument entry of
\* every node of the posted chain refers to a parameter that the node's
\* own schema declares.
C9_EntriesOfOwnSchema ==
    nposted >= 1 =>
      \A d \in 1..Len(posted) :
        LET own == CommandSchema(posted[d].command_schema)
        IN  /\ \A i \in 1..Len(posted[d].options) :
                 posted[d].options[i].option_schema \in Range(own.options)
            /\ \A i \in 1..Len(posted[d].arguments) :
                 posted[d].arguments[i].argument_schema \in Range(own.arguments)

====
